---- MODULE Spec2Model ----
(***************************************************************************)
(* Model of google/adk/sessions/database_session_service.py:               *)
(* DatabaseSessionService over the four tables sessions, events,           *)
(* app_states and user_states.                                             *)
(*                                                                         *)
(* Every public method runs in one database transaction.  A method is      *)
(* split at the storage boundary: one step per row fetch / query and one   *)
(* step for flush+commit.  A fetch sees the rows committed so far; the     *)
(* writes of a transaction are buffered in the unit of work and reach the  *)
(* tables in one step, at commit.  Strings that the code inspects (state   *)
(* keys) are sequences of characters; a dict is a function from keys to    *)
(* values; the value of func.now() is the variable now.                    *)
(***************************************************************************)
EXTENDS Integers, Sequences, FiniteSets, TLC

\* ------------------------------------------------------------------------
\* Bounds of the model
MaxOps == 4
MaxTime == 2

\* ------------------------------------------------------------------------
\* State.APP_PREFIX, State.USER_PREFIX, State.TEMP_PREFIX
APP_PREFIX == <<"a", "p", "p", ":">>
USER_PREFIX == <<"u", "s", "e", "r", ":">>
TEMP_PREFIX == <<"t", "e", "m", "p", ":">>

\* str.startswith
startswith(key, prefix) ==
  /\ Len(key) >= Len(prefix)
  /\ SubSeq(key, 1, Len(prefix)) = prefix

\* str.removeprefix
removeprefix(key, prefix) ==
  IF startswith(key, prefix) THEN SubSeq(key, Len(prefix) + 1, Len(key)) ELSE key

\* {} (a dict with no keys)
EmptyDict == <<>>

\* d[key] = value
DictSet(d, key, value) ==
  [x \in DOMAIN d \cup {key} |-> IF x = key THEN value ELSE d[x]]

\* dict.update
update(d, other) ==
  [x \in DOMAIN d \cup DOMAIN other |-> IF x \in DOMAIN other THEN other[x] ELSE d[x]]

\* Optional[Dict]: None, or a dict
None == [present |-> FALSE]
Some(d) == [present |-> TRUE, d |-> d]

\* truth value of an Optional[Dict]: None and {} are falsy
Truthy(state) == state.present /\ DOMAIN state.d # {}

NoDeltas == [app_state_delta |-> EmptyDict, user_state_delta |-> EmptyDict, session_state_delta |-> EmptyDict]

\* ExtractStep without the test of State.TEMP_PREFIX
ExtractStep_KeepsTemp(state, key, acc) ==
  IF startswith(key, APP_PREFIX)
    THEN [acc EXCEPT !.app_state_delta = DictSet(@, removeprefix(key, APP_PREFIX), state[key])]
  ELSE IF startswith(key, USER_PREFIX)
    THEN [acc EXCEPT !.user_state_delta = DictSet(@, removeprefix(key, USER_PREFIX), state[key])]
  ELSE [acc EXCEPT !.session_state_delta = DictSet(@, key, state[key])]

\* ExtractStep that leaves the prefix on a user-scoped key
ExtractStep_UserUnstripped(state, key, acc) ==
  IF startswith(key, APP_PREFIX)
    THEN [acc EXCEPT !.app_state_delta = DictSet(@, removeprefix(key, APP_PREFIX), state[key])]
  ELSE IF startswith(key, USER_PREFIX)
    THEN [acc EXCEPT !.user_state_delta = DictSet(@, key, state[key])]
  ELSE IF ~startswith(key, TEMP_PREFIX)
    THEN [acc EXCEPT !.session_state_delta = DictSet(@, key, state[key])]
  ELSE acc

\* the body of "for key in state.keys()" of _extract_state_delta
ExtractStep(state, key, acc) ==
  IF startswith(key, APP_PREFIX)
    THEN [acc EXCEPT !.app_state_delta = DictSet(@, removeprefix(key, APP_PREFIX), state[key])]
  ELSE IF startswith(key, USER_PREFIX)
    THEN [acc EXCEPT !.user_state_delta = DictSet(@, removeprefix(key, USER_PREFIX), state[key])]
  ELSE IF ~startswith(key, TEMP_PREFIX)
    THEN [acc EXCEPT !.session_state_delta = DictSet(@, key, state[key])]
  ELSE acc

RECURSIVE ExtractLoop(_, _, _)
ExtractLoop(state, keys, acc) ==
  IF keys = {} THEN acc
  ELSE LET key == CHOOSE k \in keys : TRUE
       IN ExtractLoop(state, keys \ {key}, ExtractStep(state, key, acc))

_extract_state_delta(state) ==
  IF Truthy(state) THEN ExtractLoop(state.d, DOMAIN state.d, NoDeltas) ELSE NoDeltas

\* one "for key in tier.keys(): merged_state[prefix + key] = tier[key]" loop
RECURSIVE MergeLoop(_, _, _, _)
MergeLoop(merged_state, prefix, tier, keys) ==
  IF keys = {} THEN merged_state
  ELSE LET key == CHOOSE k \in keys : TRUE
       IN MergeLoop(DictSet(merged_state, prefix \o key, tier[key]), prefix, tier, keys \ {key})

\* _merge_state that gives the user keys the app prefix
_merge_state_UserAsApp(app_state, user_state, session_state) ==
  MergeLoop(MergeLoop(session_state, APP_PREFIX, app_state, DOMAIN app_state),
            APP_PREFIX, user_state, DOMAIN user_state)

_merge_state(app_state, user_state, session_state) ==
  MergeLoop(MergeLoop(session_state, APP_PREFIX, app_state, DOMAIN app_state),
            USER_PREFIX, user_state, DOMAIN user_state)

\* ------------------------------------------------------------------------
\* The state keys and values the callers use
KeyK == <<"k">>
AppK == APP_PREFIX \o <<"k">>
AppJ == APP_PREFIX \o <<"j">>
UserK == USER_PREFIX \o <<"k">>
TempK == TEMP_PREFIX \o <<"k">>

Dict1(key, value) == [x \in {key} |-> value]

\* ------------------------------------------------------------------------
VARIABLES
  app_states,   \* table app_states: app_name -> row
  user_states,  \* table user_states: <<app_name, user_id>> -> row
  sessions,     \* table sessions: <<app_name, user_id, id>> -> row
  events,       \* table events: the set of event rows
  now,          \* the value func.now() gives
  foreign_keys, \* whether the database of db_url enforces foreign keys
  call,         \* per caller: the method it is in, where, and its locals
  held,         \* per caller: the Session object it holds
  ret,          \* per caller: what its last finished call returned or raised
  ops           \* number of calls made so far

dbvars == <<app_states, user_states, sessions, events>>
vars == <<app_states, user_states, sessions, events, now, foreign_keys, call, held, ret, ops>>

Callers == {"c1", "c2"}

\* session_id=None of create_session
NoneId == "None"
\* the values str(uuid.uuid4()) gives
GenIds == {"g1"}

Idle == [pc |-> "idle"]
\* the caller holds no Session (nothing returned yet, or get_session gave None)
NoSession == [present |-> FALSE]
NoResult == [flip |-> FALSE, op |-> "none", outcome |-> "none"]

\* session_factory.get(Table, pk)
Get(table, pk) ==
  IF pk \in DOMAIN table THEN [found |-> TRUE, row |-> table[pk]] ELSE [found |-> FALSE]

\* "storage_x.state if storage_x else {}"
StateOrEmpty(fetched) == IF fetched.found THEN fetched.row.state ELSE EmptyDict

\* the primary key of the sessions row a Session object or a call names
SessionKey(l) == <<l.app_name, l.user_id, l.id>>

Init ==
  /\ app_states = <<>>
  /\ user_states = <<>>
  /\ sessions = <<>>
  /\ events = {}
  /\ now = 1
  /\ foreign_keys \in BOOLEAN
  /\ call = [c \in Callers |-> Idle]
  /\ held = [c \in Callers |-> NoSession]
  /\ ret = [c \in Callers |-> NoResult]
  /\ ops = 0

\* the database clock advances
Tick ==
  /\ now < MaxTime
  /\ now' = now + 1
  /\ UNCHANGED <<dbvars, foreign_keys, call, held, ret, ops>>

\* a call begins: the caller is idle and the budget of calls is not used up
Enter(c) ==
  /\ call[c].pc = "idle"
  /\ ops < MaxOps
  /\ ops' = ops + 1

\* a call ends (by return or by raise): the with-block closes the transaction
Leave(c, op, outcome) ==
  /\ ret' = [ret EXCEPT ![c] = [flip |-> ~ret[c].flip, op |-> op, outcome |-> outcome]]
  /\ call' = [call EXCEPT ![c] = Idle]

\* ------------------------------------------------------------------------
\* create_session

\* entry, and session_factory.get(StorageAppState, (app_name))
CreateFetchAppState(c, app_name, user_id, state, session_id) ==
  /\ Enter(c)
  /\ call' = [call EXCEPT ![c] =
       [pc |-> "create_user", app_name |-> app_name, user_id |-> user_id,
        state |-> state, session_id |-> session_id,
        storage_app_state |-> Get(app_states, app_name)]]
  /\ UNCHANGED <<dbvars, now, foreign_keys, held, ret>>

\* session_factory.get(StorageUserState, ...), then the local work up to
\* session_factory.add(storage_session)
CreateFetchUserState(c) ==
  /\ call[c].pc = "create_user"
  /\ LET l == call[c]
         storage_user_state == Get(user_states, <<l.app_name, l.user_id>>)
         deltas == _extract_state_delta(l.state)
     IN call' = [call EXCEPT ![c] =
          [pc |-> "create_commit",
           app_name |-> l.app_name, user_id |-> l.user_id,
           session_id |-> l.session_id, state |-> l.state,
           app_found |-> l.storage_app_state.found,
           user_found |-> storage_user_state.found,
           app_state_delta |-> deltas.app_state_delta,
           user_state_delta |-> deltas.user_state_delta,
           app_state |-> update(StateOrEmpty(l.storage_app_state), deltas.app_state_delta),
           user_state |-> update(StateOrEmpty(storage_user_state), deltas.user_state_delta),
           session_state |-> deltas.session_state_delta]]
  /\ UNCHANGED <<dbvars, now, foreign_keys, held, ret, ops>>

\* the state a tier row gets at the flush of create_session: a fetched row is
\* a MutableDict that update() marked changed, so it is written back whatever
\* the delta; a new row is inserted with {} unless the delta is non-empty
CreateTierState(found, delta, state) ==
  IF found \/ delta # EmptyDict THEN state ELSE EmptyDict

\* the ids the new sessions row can get: the given one, or a fresh uuid
CreateIds(session_id) ==
  IF session_id = NoneId
    THEN {g \in GenIds : \A key \in DOMAIN sessions : key[3] # g}
    ELSE {session_id}

\* CreateCommit with session_factory.merge(storage_session) for add: a
\* sessions row with the same primary key is overwritten
CreateCommit_Merge(c) ==
  /\ call[c].pc = "create_commit"
  /\ LET l == call[c]
     IN \E id \in CreateIds(l.session_id) :
          IF /\ (~l.app_found => l.app_name \notin DOMAIN app_states)
             /\ (~l.user_found => <<l.app_name, l.user_id>> \notin DOMAIN user_states)
          THEN /\ app_states' = DictSet(app_states, l.app_name,
                     [state |-> CreateTierState(l.app_found, l.app_state_delta, l.app_state)])
               /\ user_states' = DictSet(user_states, <<l.app_name, l.user_id>>,
                     [state |-> CreateTierState(l.user_found, l.user_state_delta, l.user_state)])
               /\ sessions' = DictSet(sessions, <<l.app_name, l.user_id, id>>,
                     [state |-> l.session_state, update_time |-> now])
               /\ call' = [call EXCEPT ![c] =
                     [pc |-> "create_refresh",
                      app_name |-> l.app_name, user_id |-> l.user_id, id |-> id,
                      app_state |-> l.app_state, user_state |-> l.user_state,
                      session_state |-> l.session_state]]
               /\ UNCHANGED <<events, ret>>
          ELSE /\ Leave(c, "create_session", "error")
               /\ UNCHANGED dbvars
  /\ UNCHANGED <<now, foreign_keys, held, ops>>

\* session_factory.commit(): flush the inserts and updates, commit
CreateCommit(c) ==
  /\ call[c].pc = "create_commit"
  /\ LET l == call[c]
     IN \E id \in CreateIds(l.session_id) :
          IF /\ (~l.app_found => l.app_name \notin DOMAIN app_states)
             /\ (~l.user_found => <<l.app_name, l.user_id>> \notin DOMAIN user_states)
             /\ <<l.app_name, l.user_id, id>> \notin DOMAIN sessions
          THEN /\ app_states' = DictSet(app_states, l.app_name,
                     [state |-> CreateTierState(l.app_found, l.app_state_delta, l.app_state)])
               /\ user_states' = DictSet(user_states, <<l.app_name, l.user_id>>,
                     [state |-> CreateTierState(l.user_found, l.user_state_delta, l.user_state)])
               /\ sessions' = DictSet(sessions, <<l.app_name, l.user_id, id>>,
                     [state |-> l.session_state, update_time |-> now])
               /\ call' = [call EXCEPT ![c] =
                     [pc |-> "create_refresh",
                      app_name |-> l.app_name, user_id |-> l.user_id, id |-> id,
                      app_state |-> l.app_state, user_state |-> l.user_state,
                      session_state |-> l.session_state]]
               /\ UNCHANGED <<events, ret>>
          ELSE \* IntegrityError: a primary key is taken
               /\ Leave(c, "create_session", "error")
               /\ UNCHANGED dbvars
  /\ UNCHANGED <<now, foreign_keys, held, ops>>

\* session_factory.refresh(storage_session), then build and return the Session
CreateRefresh(c) ==
  /\ call[c].pc = "create_refresh"
  /\ LET l == call[c]
         storage_session == Get(sessions, SessionKey(l))
     IN IF storage_session.found
        THEN /\ held' = [held EXCEPT ![c] =
                  [present |-> TRUE, app_name |-> l.app_name,
                   user_id |-> l.user_id, id |-> l.id,
                   state |-> _merge_state(l.app_state, l.user_state, l.session_state),
                   events |-> <<>>,
                   last_update_time |-> storage_session.row.update_time]]
             /\ Leave(c, "create_session", "ok")
        ELSE \* the row is gone: refresh raises
             /\ Leave(c, "create_session", "error")
             /\ UNCHANGED held
  /\ UNCHANGED <<dbvars, now, foreign_keys, ops>>

\* ------------------------------------------------------------------------
\* get_session

\* truth value of an Optional number: None and 0 are falsy
TruthyNumber(x) == x.present /\ x.d # 0

\* config=None, and GetSessionConfig(num_recent_events=..., after_timestamp=...)
\* with Optional fields
NoConfig == None
GetSessionConfig(num_recent_events, after_timestamp) ==
  Some([num_recent_events |-> num_recent_events, after_timestamp |-> after_timestamp])

\* get_session ends: what it was called with, and whether it returned a
\* Session ("ok") or None ("none")
GetResult(c, outcome, app_name, user_id, session_id, config) ==
  [flip |-> ~ret[c].flip, op |-> "get_session", outcome |-> outcome,
   app_name |-> app_name, user_id |-> user_id, session_id |-> session_id,
   config |-> config]

\* entry, and session_factory.get(StorageSession, (app_name, user_id, session_id))
GetFetchSession(c, app_name, user_id, session_id, config) ==
  /\ Enter(c)
  /\ LET storage_session == Get(sessions, <<app_name, user_id, session_id>>)
     IN IF storage_session.found
        THEN /\ call' = [call EXCEPT ![c] =
                  [pc |-> "get_events", app_name |-> app_name, user_id |-> user_id,
                   id |-> session_id, config |-> config,
                   session_state |-> storage_session.row.state,
                   update_time |-> storage_session.row.update_time]]
             /\ UNCHANGED <<held, ret>>
        ELSE \* return None
             /\ held' = [held EXCEPT ![c] = NoSession]
             /\ ret' = [ret EXCEPT ![c] =
                  GetResult(c, "none", app_name, user_id, session_id, config)]
             /\ UNCHANGED call
  /\ UNCHANGED <<dbvars, now, foreign_keys>>

\* the rows the events query selects
QueryFilter(id, config) ==
  {e \in events :
     /\ e.session_id = id
     /\ (config.present /\ TruthyNumber(config.d.after_timestamp)) =>
          e.timestamp >= config.d.after_timestamp.d}

\* the orders ORDER BY timestamp DESC can give the rows (ties in any order)
OrderByTimestampDesc(rows) ==
  {s \in [1..Cardinality(rows) -> rows] :
     /\ \A i, j \in DOMAIN s : i # j => s[i] # s[j]
     /\ \A i, j \in DOMAIN s : i < j => s[i].timestamp >= s[j].timestamp}

\* "config.num_recent_events if config and config.num_recent_events else None"
LimitOf(config) ==
  IF config.present /\ TruthyNumber(config.d.num_recent_events)
    THEN config.d.num_recent_events
    ELSE None

\* .limit(n): the first n rows, .limit(None): all rows
Limit(s, n) == IF n.present /\ n.d < Len(s) THEN SubSeq(s, 1, n.d) ELSE s

\* Reversed without the reversal: the rows as the query gives them
Reversed_AsQueried(s) == s

\* reversed(storage_events)
Reversed(s) == [i \in 1..Len(s) |-> s[Len(s) + 1 - i]]

\* the Event built from an events row
ToEvent(e) == [id |-> e.id, timestamp |-> e.timestamp, partial |-> e.partial, actions |-> e.actions]

\* session_factory.query(StorageEvent)...all()
GetQueryEvents(c) ==
  /\ call[c].pc = "get_events"
  /\ LET l == call[c]
     IN \E s \in OrderByTimestampDesc(QueryFilter(l.id, l.config)) :
          call' = [call EXCEPT ![c] =
            [pc |-> "get_app", app_name |-> l.app_name, user_id |-> l.user_id,
             id |-> l.id, config |-> l.config, session_state |-> l.session_state,
             update_time |-> l.update_time,
             storage_events |-> Limit(s, LimitOf(l.config))]]
  /\ UNCHANGED <<dbvars, now, foreign_keys, held, ret, ops>>

\* session_factory.get(StorageAppState, (app_name))
GetFetchAppState(c) ==
  /\ call[c].pc = "get_app"
  /\ call' = [call EXCEPT ![c] =
       [pc |-> "get_user", app_name |-> call[c].app_name, user_id |-> call[c].user_id,
        id |-> call[c].id, config |-> call[c].config,
        session_state |-> call[c].session_state,
        update_time |-> call[c].update_time,
        storage_events |-> call[c].storage_events,
        app_state |-> StateOrEmpty(Get(app_states, call[c].app_name))]]
  /\ UNCHANGED <<dbvars, now, foreign_keys, held, ret, ops>>

\* session_factory.get(StorageUserState, ...), then build and return the Session
GetFetchUserState(c) ==
  /\ call[c].pc = "get_user"
  /\ LET l == call[c]
         user_state == StateOrEmpty(Get(user_states, <<l.app_name, l.user_id>>))
         storage_events == l.storage_events
     IN held' = [held EXCEPT ![c] =
          [present |-> TRUE, app_name |-> l.app_name, user_id |-> l.user_id,
           id |-> l.id,
           state |-> _merge_state(l.app_state, user_state, l.session_state),
           events |-> [i \in DOMAIN storage_events |-> ToEvent(Reversed(storage_events)[i])],
           last_update_time |-> l.update_time]]
  /\ ret' = [ret EXCEPT ![c] = GetResult(c, "ok", call[c].app_name, call[c].user_id,
                                         call[c].id, call[c].config)]
  /\ call' = [call EXCEPT ![c] = Idle]
  /\ UNCHANGED <<dbvars, now, foreign_keys, ops>>

\* ------------------------------------------------------------------------
\* list_sessions

\* the orders in which .all() can give the rows of a query without ORDER BY
AnyOrder(rows) ==
  {s \in [1..Cardinality(rows) -> rows] : \A i, j \in DOMAIN s : i # j => s[i] # s[j]}

\* ListedSession with "state=storage_session.state" instead of "state={}"
ListedSession_WithState(app_name, user_id, key) ==
  [app_name |-> app_name, user_id |-> user_id, id |-> key[3],
   state |-> sessions[key].state, events |-> <<>>,
   last_update_time |-> sessions[key].update_time]

\* the Session built for a sessions row with primary key key
ListedSession(app_name, user_id, key) ==
  [app_name |-> app_name, user_id |-> user_id, id |-> key[3],
   state |-> EmptyDict, events |-> <<>>,
   last_update_time |-> sessions[key].update_time]

\* list_sessions: one query, then ListSessionsResponse(sessions=...)
ListSessions(c, app_name, user_id) ==
  /\ Enter(c)
  /\ LET results == {key \in DOMAIN sessions : key[1] = app_name /\ key[2] = user_id}
     IN \E s \in AnyOrder(results) :
          ret' = [ret EXCEPT ![c] =
            [flip |-> ~ret[c].flip, op |-> "list_sessions", outcome |-> "ok",
             app_name |-> app_name, user_id |-> user_id,
             sessions |-> [i \in DOMAIN s |-> ListedSession(app_name, user_id, s[i])]]]
  /\ UNCHANGED <<dbvars, now, foreign_keys, call, held>>

\* ------------------------------------------------------------------------
\* delete_session whose DELETE lacks "StorageSession.id == session_id": every
\* session of the user goes, and with it its events
DeleteSession_OfUser(c, app_name, user_id, session_id) ==
  /\ Enter(c)
  /\ sessions' = [key \in {k \in DOMAIN sessions : <<k[1], k[2]>> # <<app_name, user_id>>}
                    |-> sessions[key]]
  /\ events' = IF foreign_keys
                 THEN {e \in events : <<e.app_name, e.user_id>> # <<app_name, user_id>>}
                 ELSE events
  /\ ret' = [ret EXCEPT ![c] =
       [flip |-> ~ret[c].flip, op |-> "delete_session", outcome |-> "ok",
        app_name |-> app_name, user_id |-> user_id, session_id |-> session_id]]
  /\ UNCHANGED <<app_states, user_states, now, foreign_keys, call, held>>

\* ------------------------------------------------------------------------
\* delete_session that also deletes the user_states row of the user
DeleteSession_AndUserState(c, app_name, user_id, session_id) ==
  /\ Enter(c)
  /\ sessions' = [key \in DOMAIN sessions \ {<<app_name, user_id, session_id>>} |-> sessions[key]]
  /\ events' = IF foreign_keys /\ <<app_name, user_id, session_id>> \in DOMAIN sessions
                 THEN {e \in events : <<e.app_name, e.user_id, e.session_id>> # <<app_name, user_id, session_id>>}
                 ELSE events
  /\ user_states' = [key \in DOMAIN user_states \ {<<app_name, user_id>>} |-> user_states[key]]
  /\ ret' = [ret EXCEPT ![c] =
       [flip |-> ~ret[c].flip, op |-> "delete_session", outcome |-> "ok",
        app_name |-> app_name, user_id |-> user_id, session_id |-> session_id]]
  /\ UNCHANGED <<app_states, now, foreign_keys, call, held>>

\* ------------------------------------------------------------------------
\* delete_session: DELETE FROM sessions WHERE ..., commit; the foreign key of
\* events is ON DELETE CASCADE, which acts where foreign keys are enforced
DeleteSession(c, app_name, user_id, session_id) ==
  /\ Enter(c)
  /\ sessions' = [key \in DOMAIN sessions \ {<<app_name, user_id, session_id>>} |-> sessions[key]]
  /\ events' = IF foreign_keys /\ <<app_name, user_id, session_id>> \in DOMAIN sessions
                 THEN {e \in events : <<e.app_name, e.user_id, e.session_id>> # <<app_name, user_id, session_id>>}
                 ELSE events
  /\ ret' = [ret EXCEPT ![c] =
       [flip |-> ~ret[c].flip, op |-> "delete_session", outcome |-> "ok",
        app_name |-> app_name, user_id |-> user_id, session_id |-> session_id]]
  /\ UNCHANGED <<app_states, user_states, now, foreign_keys, call, held>>

\* ------------------------------------------------------------------------
\* append_event(session, event), session being the object the caller holds

\* append_event ends: what it returned or raised, for which event
AppendResult(c, outcome, event) ==
  [flip |-> ~ret[c].flip, op |-> "append_event", outcome |-> outcome, event |-> event]

\* AppendPartial without the early return: the staleness check is made
AppendPartial_Checked(c, event) ==
  /\ Enter(c)
  /\ held[c].present
  /\ event.partial
  /\ LET storage_session == Get(sessions, SessionKey(held[c]))
     IN ret' = [ret EXCEPT ![c] =
          AppendResult(c, IF ~storage_session.found THEN "error"
                          ELSE IF storage_session.row.update_time > held[c].last_update_time
                            THEN "stale" ELSE "ok", event)]
  /\ UNCHANGED <<dbvars, now, foreign_keys, call, held>>

\* "if event.partial: return event"
AppendPartial(c, event) ==
  /\ Enter(c)
  /\ held[c].present
  /\ event.partial
  /\ ret' = [ret EXCEPT ![c] = AppendResult(c, "ok", event)]
  /\ UNCHANGED <<dbvars, now, foreign_keys, call, held>>

\* IsStale with >= for >
IsStale_OrEqual(update_time, last_update_time) == update_time >= last_update_time

\* "storage_session.update_time.timestamp() > session.last_update_time"
IsStale(update_time, last_update_time) == update_time > last_update_time

\* entry, session_factory.get(StorageSession, ...) and the staleness check
AppendFetchSession(c, event) ==
  /\ Enter(c)
  /\ held[c].present
  /\ ~event.partial
  /\ LET session == held[c]
         storage_session == Get(sessions, SessionKey(session))
     IN IF ~storage_session.found
        THEN \* storage_session is None: AttributeError
             /\ ret' = [ret EXCEPT ![c] = AppendResult(c, "error", event)]
             /\ UNCHANGED call
        ELSE IF IsStale(storage_session.row.update_time, session.last_update_time)
        THEN \* ValueError: stale session
             /\ ret' = [ret EXCEPT ![c] = AppendResult(c, "stale", event)]
             /\ UNCHANGED call
        ELSE /\ call' = [call EXCEPT ![c] =
                  [pc |-> "append_app", event |-> event,
                   session_state |-> storage_session.row.state,
                   update_time |-> storage_session.row.update_time]]
             /\ UNCHANGED ret
  /\ UNCHANGED <<dbvars, now, foreign_keys, held>>

\* session_factory.get(StorageAppState, (session.app_name))
AppendFetchAppState(c) ==
  /\ call[c].pc = "append_app"
  /\ call' = [call EXCEPT ![c] =
       [pc |-> "append_user", event |-> call[c].event,
        session_state |-> call[c].session_state,
        update_time |-> call[c].update_time,
        storage_app_state |-> Get(app_states, held[c].app_name)]]
  /\ UNCHANGED <<dbvars, now, foreign_keys, held, ret, ops>>

\* the deltas of the event: "if event.actions: if event.actions.state_delta:"
EventDeltas(event) == _extract_state_delta(Some(event.actions.state_delta))

\* "if delta: state.update(delta); storage_x.state = state"
AppendTierState(state, delta) == IF delta # EmptyDict THEN update(state, delta) ELSE state

\* session_factory.get(StorageUserState, ...), then the local work up to
\* session_factory.add(storage_event)
AppendFetchUserState(c) ==
  /\ call[c].pc = "append_user"
  /\ LET l == call[c]
         session == held[c]
         storage_user_state == Get(user_states, <<session.app_name, session.user_id>>)
         deltas == EventDeltas(l.event)
     IN IF \/ (deltas.app_state_delta # EmptyDict /\ ~l.storage_app_state.found)
           \/ (deltas.user_state_delta # EmptyDict /\ ~storage_user_state.found)
        THEN \* storage_app_state / storage_user_state is None: AttributeError
             /\ ret' = [ret EXCEPT ![c] = AppendResult(c, "error", l.event)]
             /\ call' = [call EXCEPT ![c] = Idle]
        ELSE /\ call' = [call EXCEPT ![c] =
                  [pc |-> "append_commit", event |-> l.event,
                   update_time |-> l.update_time,
                   app_write |-> deltas.app_state_delta # EmptyDict,
                   user_write |-> deltas.user_state_delta # EmptyDict,
                   session_write |-> deltas.session_state_delta # EmptyDict,
                   app_state |-> AppendTierState(StateOrEmpty(l.storage_app_state), deltas.app_state_delta),
                   user_state |-> AppendTierState(StateOrEmpty(storage_user_state), deltas.user_state_delta),
                   session_state |-> AppendTierState(l.session_state, deltas.session_state_delta),
                   storage_event |->
                     [id |-> l.event.id, app_name |-> session.app_name,
                      user_id |-> session.user_id, session_id |-> session.id,
                      timestamp |-> l.event.timestamp, partial |-> l.event.partial,
                      actions |-> l.event.actions]]]
             /\ UNCHANGED ret
  /\ UNCHANGED <<dbvars, now, foreign_keys, held, ops>>

\* the sessions row after the flush of append_event: the UPDATE is emitted only
\* for a changed state, and only an UPDATE runs onupdate=func.now()
FlushSession(row, session_write, session_state) ==
  IF session_write THEN [state |-> session_state, update_time |-> now] ELSE row

\* session_factory.commit(): flush the updates and the insert, commit
AppendCommit(c) ==
  /\ call[c].pc = "append_commit"
  /\ LET l == call[c]
         key == SessionKey(held[c])
     IN IF /\ key \in DOMAIN sessions \/ (~l.session_write /\ ~foreign_keys)
           /\ \A e \in events :
                <<e.id, e.app_name, e.user_id, e.session_id>> #
                  <<l.storage_event.id, key[1], key[2], key[3]>>
        THEN /\ app_states' = IF l.app_write
                                THEN [app_states EXCEPT ![key[1]] = [state |-> l.app_state]]
                                ELSE app_states
             /\ user_states' = IF l.user_write
                                 THEN [user_states EXCEPT ![<<key[1], key[2]>>] = [state |-> l.user_state]]
                                 ELSE user_states
             /\ sessions' = IF l.session_write
                              THEN [sessions EXCEPT ![key] =
                                      FlushSession(@, l.session_write, l.session_state)]
                              ELSE sessions
             /\ events' = events \cup {l.storage_event}
             /\ call' = [call EXCEPT ![c] =
                  [pc |-> "append_refresh", event |-> l.event, update_time |-> l.update_time]]
             /\ UNCHANGED ret
        ELSE \* the sessions row is gone (the UPDATE matches no row:
             \* StaleDataError; or the foreign key of the insert is enforced),
             \* or the primary key of the event is taken
             /\ ret' = [ret EXCEPT ![c] = AppendResult(c, "error", l.event)]
             /\ call' = [call EXCEPT ![c] = Idle]
             /\ UNCHANGED dbvars
  /\ UNCHANGED <<now, foreign_keys, held, ops>>

\* append_event without "session.last_update_time = ..." after the refresh
AppendRefresh_KeepsTime(c) ==
  /\ call[c].pc = "append_refresh"
  /\ LET storage_session == Get(sessions, SessionKey(held[c]))
     IN ret' = [ret EXCEPT ![c] =
                 AppendResult(c, IF storage_session.found THEN "ok" ELSE "error",
                              call[c].event)]
  /\ call' = [call EXCEPT ![c] = Idle]
  /\ UNCHANGED <<dbvars, now, foreign_keys, ops, held>>

\* session_factory.refresh(storage_session);
\* session.last_update_time = storage_session.update_time.timestamp()
AppendRefresh(c) ==
  /\ call[c].pc = "append_refresh"
  /\ LET storage_session == Get(sessions, SessionKey(held[c]))
     IN IF storage_session.found
        THEN /\ held' = [held EXCEPT ![c].last_update_time = storage_session.row.update_time]
             /\ ret' = [ret EXCEPT ![c] = AppendResult(c, "ok", call[c].event)]
             /\ call' = [call EXCEPT ![c] = Idle]
        ELSE \* the row is gone: refresh raises
             /\ ret' = [ret EXCEPT ![c] = AppendResult(c, "error", call[c].event)]
             /\ call' = [call EXCEPT ![c] = Idle]
             /\ UNCHANGED held
  /\ UNCHANGED <<dbvars, now, foreign_keys, ops>>

\* ------------------------------------------------------------------------
\* What the callers of Spec pass
Apps == {"a1"}
Users == {"u1"}
Sids == {"s1"}

InitialStates == { None, Some(update(Dict1(AppJ, 1), Dict1(TempK, 1))) }

StateDeltas ==
  { EmptyDict,
    Dict1(AppK, 2),
    update(Dict1(KeyK, 1), Dict1(UserK, 1)),
    update(Dict1(<<"j">>, 2), Dict1(TempK, 2)) }

\* the Event of the call: Event.id is a fresh value
NewEvent(timestamp, partial, state_delta) ==
  [id |-> ops + 1, timestamp |-> timestamp, partial |-> partial,
   actions |-> [state_delta |-> state_delta]]

\* the partial events the callers append
PartialEvents == { NewEvent(1, TRUE, Dict1(KeyK, 2)) }

Next ==
  \/ Tick
  \/ \E c \in Callers, app_name \in Apps, user_id \in Users,
        state \in InitialStates, session_id \in Sids \cup {NoneId} :
       CreateFetchAppState(c, app_name, user_id, state, session_id)
  \/ \E c \in Callers : CreateFetchUserState(c)
  \/ \E c \in Callers : CreateCommit(c)
  \/ \E c \in Callers : CreateRefresh(c)
  \/ \E c \in Callers, app_name \in Apps, user_id \in Users, session_id \in Sids :
       GetFetchSession(c, app_name, user_id, session_id, NoConfig)
  \/ \E c \in Callers : GetQueryEvents(c)
  \/ \E c \in Callers : GetFetchAppState(c)
  \/ \E c \in Callers : GetFetchUserState(c)
  \/ \E c \in Callers, app_name \in Apps, user_id \in Users :
       ListSessions(c, app_name, user_id)
  \/ \E c \in Callers, app_name \in Apps, user_id \in Users, session_id \in Sids :
       DeleteSession(c, app_name, user_id, session_id)
  \/ \E c \in Callers, event \in PartialEvents : AppendPartial(c, event)
  \/ \E c \in Callers, state_delta \in StateDeltas :
       AppendFetchSession(c, NewEvent(1, FALSE, state_delta))
  \/ \E c \in Callers : AppendFetchAppState(c)
  \/ \E c \in Callers : AppendFetchUserState(c)
  \/ \E c \in Callers : AppendCommit(c)
  \/ \E c \in Callers : AppendRefresh(c)

\* the service on a database that enforces foreign keys, with two callers
EnforcingInit == Init /\ foreign_keys

Spec == EnforcingInit /\ [][Next]_vars

\* ------------------------------------------------------------------------
\* _extract_state_delta alone, applied to every dict over RouteKeys and to None

RouteKeys ==
  { KeyK, AppK, UserK, TempK,
    APP_PREFIX,                          \* "app:"
    <<"a", "p", "p">>,                   \* "app"
    APP_PREFIX \o UserK,                 \* "app:user:k"
    USER_PREFIX \o TempK,                \* "user:temp:k"
    TEMP_PREFIX \o AppK }                \* "temp:app:k"

RouteValues == {1, 2}

RouteInputs ==
  {None} \cup {Some(d) : d \in UNION {[keys -> RouteValues] : keys \in SUBSET RouteKeys}}

RouteInit ==
  /\ app_states = <<>>
  /\ user_states = <<>>
  /\ sessions = <<>>
  /\ events = {}
  /\ now = 1
  /\ foreign_keys \in BOOLEAN
  /\ \E state \in RouteInputs :
       call = [c \in Callers |-> IF c = "c1" THEN [pc |-> "route", state |-> state] ELSE Idle]
  /\ held = [c \in Callers |-> NoSession]
  /\ ret = [c \in Callers |-> NoResult]
  /\ ops = 0

RouteApply ==
  /\ call["c1"].pc = "route"
  /\ call' = [call EXCEPT !["c1"] =
       [pc |-> "routed", state |-> call["c1"].state,
        deltas |-> _extract_state_delta(call["c1"].state)]]
  /\ UNCHANGED <<dbvars, now, foreign_keys, held, ret, ops>>

RouteNext == RouteApply

SpecRoute == RouteInit /\ [][RouteNext]_vars

\* ------------------------------------------------------------------------
\* Properties

\* the state keys the callers of Spec pass
IncomingKeys ==
  UNION ({DOMAIN state.d : state \in {x \in InitialStates : x.present}}
         \cup {DOMAIN state_delta : state_delta \in StateDeltas}
         \cup {DOMAIN event.actions.state_delta : event \in PartialEvents})

\* key begins with "temp:"
IsEphemeral(key) == Len(key) >= 5 /\ SubSeq(key, 1, 5) = <<"t", "e", "m", "p", ":">>

\* key begins with prefix
BeginsWith(key, prefix) ==
  /\ Len(key) >= Len(prefix)
  /\ \A i \in 1..Len(prefix) : key[i] = prefix[i]

\* the keys of a tier, each with the prefix of the tier put back
Prefixed(prefix, tier) == {prefix \o k : k \in DOMAIN tier}

\* the step in which caller c enters append_event with a non-partial event:
\* the sessions row is fetched and the staleness check is made
FenceStep(c) ==
  /\ call[c].pc = "idle"
  /\ held[c].present
  /\ \/ call'[c].pc = "append_app"
     \/ /\ ret'[c] # ret[c]
        /\ ret'[c].op = "append_event"
        /\ ~ret'[c].event.partial

\* C1: a non-partial append_event is rejected as stale exactly when the stored
\* update_time of the sessions row is strictly greater than the caller's
\* session.last_update_time; a caller presenting a value greater than or equal
\* to the stored one passes the check; a rejected append leaves every table
\* and the caller's Session object as they were.
C1_StaleFence ==
  [][\A c \in Callers : FenceStep(c) =>
       LET key == SessionKey(held[c])
           rejected == ret'[c] # ret[c] /\ ret'[c].outcome = "stale"
       IN /\ rejected <=> (/\ key \in DOMAIN sessions
                           /\ sessions[key].update_time > held[c].last_update_time)
          /\ (/\ key \in DOMAIN sessions
              /\ held[c].last_update_time >= sessions[key].update_time)
               => call'[c].pc = "append_app"
          /\ rejected => UNCHANGED <<app_states, user_states, sessions, events, held>>
    ]_vars

\* a caller was rejected as stale: the stored update_time is newer than the
\* last_update_time of the Session it holds
C1_Witness ==
  \E c \in Callers :
    /\ ret[c].op = "append_event"
    /\ ret[c].outcome = "stale"
    /\ held[c].present
    /\ SessionKey(held[c]) \in DOMAIN sessions
    /\ sessions[SessionKey(held[c])].update_time > held[c].last_update_time

\* the step in which caller c calls append_event with a partial event
PartialStep(c) ==
  /\ call[c].pc = "idle"
  /\ ret'[c] # ret[c]
  /\ ret'[c].op = "append_event"
  /\ ret'[c].event.partial

\* C6: append_event with a partial event returns that event in the same step
\* and changes nothing: no table, not the caller's Session object; it is not
\* rejected, whatever the stored update_time and also when the sessions row
\* is gone.
C6_PartialIsNoOp ==
  [][\A c \in Callers : PartialStep(c) =>
       /\ ret'[c].outcome = "ok"
       /\ ret'[c].event \in PartialEvents
       /\ call'[c].pc = "idle"
       /\ UNCHANGED <<app_states, user_states, sessions, events, held, now, foreign_keys>>
    ]_vars

\* a partial event was appended, as the last call made, through a Session
\* that is stale
C6_Witness ==
  \E c \in Callers :
    /\ ret[c].op = "append_event"
    /\ ret[c].outcome = "ok"
    /\ ret[c].event.partial
    /\ ret[c].event.id = ops
    /\ held[c].present
    /\ SessionKey(held[c]) \in DOMAIN sessions
    /\ sessions[SessionKey(held[c])].update_time > held[c].last_update_time

\* C7: no tier stores a key that came in with the prefix "temp:": no key of a
\* stored session state begins with "temp:", every key of a stored app state
\* (user state) is an incoming "app:" ("user:") key with the prefix stripped,
\* and no key of a merged state, as get_session computes it from the stored
\* rows or as a caller got it, begins with "temp:".
C7_NoEphemeralKeyStored ==
  /\ \A key \in DOMAIN sessions :
       /\ \A k \in DOMAIN sessions[key].state : ~IsEphemeral(k) /\ k \in IncomingKeys
       /\ \A k \in DOMAIN _merge_state(StateOrEmpty(Get(app_states, key[1])),
                                       StateOrEmpty(Get(user_states, <<key[1], key[2]>>)),
                                       sessions[key].state) : ~IsEphemeral(k)
  /\ \A a \in DOMAIN app_states :
       \A k \in DOMAIN app_states[a].state : APP_PREFIX \o k \in IncomingKeys
  /\ \A u \in DOMAIN user_states :
       \A k \in DOMAIN user_states[u].state : USER_PREFIX \o k \in IncomingKeys
  /\ \A c \in Callers :
       held[c].present => \A k \in DOMAIN held[c].state : ~IsEphemeral(k)

\* an event whose state delta has a "temp:" key was appended, and its
\* unprefixed key is in the session state
C7_Witness ==
  \E e \in events :
    /\ TempK \in DOMAIN e.actions.state_delta
    /\ <<e.app_name, e.user_id, e.session_id>> \in DOMAIN sessions
    /\ <<"j">> \in DOMAIN sessions[<<e.app_name, e.user_id, e.session_id>>].state

\* caller c has committed a non-partial append for which it presented a
\* last_update_time equal to the update_time it found stored
CommittedOnEqualTime(c) ==
  /\ call[c].pc = "append_refresh"
  /\ call[c].update_time = held[c].last_update_time

\* C2: of two concurrent non-partial appends to one session that both present
\* the last_update_time t0 that is stored, at most one commits.
C2_AtMostOneCommits ==
  \A c1, c2 \in Callers :
    (/\ c1 # c2
     /\ CommittedOnEqualTime(c1)
     /\ CommittedOnEqualTime(c2)
     /\ SessionKey(held[c1]) = SessionKey(held[c2]))
      => held[c1].last_update_time # held[c2].last_update_time

\* the step in which the append_event of caller c commits
AppendCommits(c) == call[c].pc = "append_commit" /\ call'[c].pc = "append_refresh"

\* the step in which the create_session of caller c commits
CreateCommits(c) == call[c].pc = "create_commit" /\ call'[c].pc = "create_refresh"

\* C3: every committed non-partial append_event strictly advances the stored
\* update_time of its sessions row.
C3_CommitAdvancesUpdateTime ==
  [][\A c \in Callers : AppendCommits(c) =>
       sessions'[SessionKey(held[c])].update_time > sessions[SessionKey(held[c])].update_time
    ]_vars

\* every key of the tier value old that delta does not name is in new, with
\* its value
KeepsOtherKeys(old, new, delta) ==
  \A k \in DOMAIN old \ DOMAIN delta : k \in DOMAIN new /\ new[k] = old[k]

\* the routed deltas of the call that caller c is about to commit
CommitDeltas(c) ==
  IF call[c].pc = "create_commit"
    THEN [app_state_delta |-> call[c].app_state_delta,
          user_state_delta |-> call[c].user_state_delta]
    ELSE [app_state_delta |-> EventDeltas(call[c].event).app_state_delta,
          user_state_delta |-> EventDeltas(call[c].event).user_state_delta]

\* the app_states and user_states keys of the call caller c is in
AppKeyOf(c) == IF call[c].pc = "create_commit" THEN call[c].app_name ELSE held[c].app_name
UserKeyOf(c) ==
  IF call[c].pc = "create_commit"
    THEN <<call[c].app_name, call[c].user_id>>
    ELSE <<held[c].app_name, held[c].user_id>>

\* C4: a create_session or append_event that commits a non-empty app-scoped
\* (user-scoped) delta loses no key that is stored in the AppState (UserState)
\* row and that its own delta does not name: the keys committed by a
\* concurrent writer with a disjoint delta stay, with their values.
C4_NoCommittedKeyLost ==
  [][\A c \in Callers : (AppendCommits(c) \/ CreateCommits(c)) =>
       /\ (CommitDeltas(c).app_state_delta # EmptyDict /\ AppKeyOf(c) \in DOMAIN app_states) =>
            KeepsOtherKeys(app_states[AppKeyOf(c)].state, app_states'[AppKeyOf(c)].state,
                           CommitDeltas(c).app_state_delta)
       /\ (CommitDeltas(c).user_state_delta # EmptyDict /\ UserKeyOf(c) \in DOMAIN user_states) =>
            KeepsOtherKeys(user_states[UserKeyOf(c)].state, user_states'[UserKeyOf(c)].state,
                           CommitDeltas(c).user_state_delta)
    ]_vars

\* C5: a get_session never returns an event row without the tier writes of
\* the delta of that event: every key the delta routes to a tier is in the
\* merged state returned with the event.
C5_ReaderSeesWholeAppend ==
  \A c \in Callers :
    (ret[c].op = "get_session" /\ ret[c].outcome = "ok" /\ held[c].present) =>
      \A i \in DOMAIN held[c].events :
        LET deltas == EventDeltas(held[c].events[i])
        IN /\ DOMAIN deltas.session_state_delta \subseteq DOMAIN held[c].state
           /\ Prefixed(APP_PREFIX, deltas.app_state_delta) \subseteq DOMAIN held[c].state
           /\ Prefixed(USER_PREFIX, deltas.user_state_delta) \subseteq DOMAIN held[c].state

\* new is old overridden by delta on exactly the keys of delta
IsOverriddenBy(old, new, delta) ==
  /\ DOMAIN new = DOMAIN old \cup DOMAIN delta
  /\ \A k \in DOMAIN new : new[k] = IF k \in DOMAIN delta THEN delta[k] ELSE old[k]

\* C10: a committed non-partial append_event changes each tier to its stored
\* value overridden by the routed delta on exactly the keys of the delta; a
\* tier whose routed delta is empty is not written.
C10_AppendOverridesTiers ==
  [][\A c \in Callers : AppendCommits(c) =>
       LET deltas == EventDeltas(call[c].event)
           key == SessionKey(held[c])
       IN /\ IF deltas.app_state_delta = EmptyDict
               THEN app_states' = app_states
               ELSE /\ DOMAIN app_states' = DOMAIN app_states
                    /\ \A a \in DOMAIN app_states \ {key[1]} : app_states'[a] = app_states[a]
                    /\ IsOverriddenBy(app_states[key[1]].state, app_states'[key[1]].state,
                                      deltas.app_state_delta)
          /\ IF deltas.user_state_delta = EmptyDict
               THEN user_states' = user_states
               ELSE /\ DOMAIN user_states' = DOMAIN user_states
                    /\ \A u \in DOMAIN user_states \ {<<key[1], key[2]>>} :
                         user_states'[u] = user_states[u]
                    /\ IsOverriddenBy(user_states[<<key[1], key[2]>>].state,
                                      user_states'[<<key[1], key[2]>>].state,
                                      deltas.user_state_delta)
          /\ IF deltas.session_state_delta = EmptyDict
               THEN sessions' = sessions
               ELSE /\ DOMAIN sessions' = DOMAIN sessions
                    /\ \A k \in DOMAIN sessions \ {key} : sessions'[k] = sessions[k]
                    /\ IsOverriddenBy(sessions[key].state, sessions'[key].state,
                                      deltas.session_state_delta)
    ]_vars

\* merged is the union of the three tiers: the session keys as they are, the
\* app keys under "app:", the user keys under "user:", and nothing else
IsUnionOfTiers(merged, app_state, user_state, session_state) ==
  /\ DOMAIN merged = DOMAIN session_state \cup Prefixed(APP_PREFIX, app_state)
                        \cup Prefixed(USER_PREFIX, user_state)
  /\ \A k \in DOMAIN session_state : merged[k] = session_state[k]
  /\ \A k \in DOMAIN app_state : merged[APP_PREFIX \o k] = app_state[k]
  /\ \A k \in DOMAIN user_state : merged[USER_PREFIX \o k] = user_state[k]

\* in this state, what get_session builds from the stored rows of every
\* session is the union of its three stored tiers
MergedOfStoredRows ==
  \A key \in DOMAIN sessions :
    LET app_state == StateOrEmpty(Get(app_states, key[1]))
        user_state == StateOrEmpty(Get(user_states, <<key[1], key[2]>>))
    IN IsUnionOfTiers(_merge_state(app_state, user_state, sessions[key].state),
                      app_state, user_state, sessions[key].state)

\* the state a get_session or create_session call returns is the union of the
\* tier values the call fetched (get) or fetched and wrote (create)
ReturnedIsUnion ==
  \A c \in Callers :
    /\ (call[c].pc = "get_user" /\ call'[c].pc = "idle") =>
         IsUnionOfTiers(held'[c].state, call[c].app_state,
                        StateOrEmpty(Get(user_states, <<call[c].app_name, call[c].user_id>>)),
                        call[c].session_state)
    /\ (call[c].pc = "create_refresh" /\ call'[c].pc = "idle" /\ ret'[c].outcome = "ok") =>
         IsUnionOfTiers(held'[c].state, call[c].app_state, call[c].user_state,
                        call[c].session_state)

\* the state a create_session call goes on to return is the union of the
\* three rows as its commit stores them
CreatedIsStoredUnion ==
  \A c \in Callers : CreateCommits(c) =>
    LET l == call'[c]
    IN IsUnionOfTiers(_merge_state(l.app_state, l.user_state, l.session_state),
                      app_states'[l.app_name].state,
                      user_states'[<<l.app_name, l.user_id>>].state,
                      sessions'[SessionKey(l)].state)

C9_RoutePartitions ==
  call["c1"].pc = "routed" =>
    LET state == call["c1"].state
        d == IF state.present THEN state.d ELSE EmptyDict
        r == call["c1"].deltas
        A == Prefixed(APP_PREFIX, r.app_state_delta)
        U == Prefixed(USER_PREFIX, r.user_state_delta)
        S == DOMAIN r.session_state_delta
    IN /\ A = {k \in DOMAIN d : BeginsWith(k, APP_PREFIX)}
       /\ U = {k \in DOMAIN d : ~BeginsWith(k, APP_PREFIX) /\ BeginsWith(k, USER_PREFIX)}
       /\ S = {k \in DOMAIN d : /\ ~BeginsWith(k, APP_PREFIX)
                                /\ ~BeginsWith(k, USER_PREFIX)
                                /\ ~BeginsWith(k, TEMP_PREFIX)}
       /\ A \cap U = {} /\ A \cap S = {} /\ U \cap S = {}
       /\ A \cup U \cup S = {k \in DOMAIN d : ~IsEphemeral(k)}
       /\ Cardinality(A) = Cardinality(DOMAIN r.app_state_delta)
       /\ Cardinality(U) = Cardinality(DOMAIN r.user_state_delta)
       /\ \A k \in DOMAIN r.app_state_delta : r.app_state_delta[k] = d[APP_PREFIX \o k]
       /\ \A k \in DOMAIN r.user_state_delta : r.user_state_delta[k] = d[USER_PREFIX \o k]
       /\ \A k \in S : r.session_state_delta[k] = d[k]
       /\ (DOMAIN d = {}) =>
            /\ r.app_state_delta = EmptyDict
            /\ r.user_state_delta = EmptyDict
            /\ r.session_state_delta = EmptyDict

\* a dict with a key of each of the four classes was routed
C9_Witness ==
  /\ call["c1"].pc = "routed"
  /\ call["c1"].state.present
  /\ {KeyK, AppK, UserK, TempK, USER_PREFIX \o TempK} \subseteq DOMAIN call["c1"].state.d
  /\ DOMAIN call["c1"].deltas.user_state_delta = {KeyK, TempK}

\* the initial state s of a create_session call as a dict (None is no keys)
GivenState(state) == IF state.present THEN state.d ELSE EmptyDict

\* the keys of d under prefix, with the prefix taken off, and their values
ScopedPart(d, prefix) ==
  [k \in {SubSeq(key, Len(prefix) + 1, Len(key)) : key \in {x \in DOMAIN d : BeginsWith(x, prefix)}}
     |-> d[prefix \o k]]

\* the keys of d with none of the three prefixes, and their values
UnprefixedPart(d) ==
  [k \in {x \in DOMAIN d : /\ ~BeginsWith(x, APP_PREFIX)
                            /\ ~BeginsWith(x, USER_PREFIX)
                            /\ ~BeginsWith(x, TEMP_PREFIX)} |-> d[k]]

\* C11: a create_session with initial state s that commits leaves an AppState
\* row and a UserState row, the stored AppState being what was stored (nothing,
\* if the row was absent) overridden by the app-scoped keys of s, the stored
\* UserState likewise with the user-scoped keys, the state of the new sessions
\* row being exactly the unprefixed non-ephemeral keys of s; and the state it
\* returns is the merged view of these three rows.
C11_CreateMergesInitialState ==
  [][\A c \in Callers : CreateCommits(c) =>
       LET l == call[c]
           s == GivenState(l.state)
           key == SessionKey(call'[c])
           app_key == l.app_name
           user_key == <<l.app_name, l.user_id>>
       IN /\ app_key \in DOMAIN app_states'
          /\ user_key \in DOMAIN user_states'
          /\ IsOverriddenBy(StateOrEmpty(Get(app_states, app_key)),
                            app_states'[app_key].state, ScopedPart(s, APP_PREFIX))
          /\ IsOverriddenBy(StateOrEmpty(Get(user_states, user_key)),
                            user_states'[user_key].state, ScopedPart(s, USER_PREFIX))
          /\ key \notin DOMAIN sessions
          /\ sessions'[key].state = UnprefixedPart(s)
          /\ IsUnionOfTiers(_merge_state(call'[c].app_state, call'[c].user_state,
                                         call'[c].session_state),
                            app_states'[app_key].state, user_states'[user_key].state,
                            sessions'[key].state)
    ]_vars

\* key k of the tier value old is in new with the value it has in old
KeyKept(old, new, k) == k \in DOMAIN new /\ new[k] = old[k]

\* in this step caller c commits an app-scoped delta for application a that
\* names key k
WritesAppKey(c, a, k) ==
  /\ AppendCommits(c) \/ CreateCommits(c)
  /\ AppKeyOf(c) = a
  /\ k \in DOMAIN CommitDeltas(c).app_state_delta

\* in this step caller c commits a user-scoped delta for the (application,
\* user) u that names key k
WritesUserKey(c, u, k) ==
  /\ AppendCommits(c) \/ CreateCommits(c)
  /\ UserKeyOf(c) = u
  /\ k \in DOMAIN CommitDeltas(c).user_state_delta

\* a committed "app:k" = v stays what every session of the application reads
\* until a commit names k again; likewise "user:k" for the (application, user)
SharedKeysStay ==
  /\ \A a \in DOMAIN app_states : \A k \in DOMAIN app_states[a].state :
       \/ \E c \in Callers : WritesAppKey(c, a, k)
       \/ a \in DOMAIN app_states' /\ KeyKept(app_states[a].state, app_states'[a].state, k)
  /\ \A u \in DOMAIN user_states : \A k \in DOMAIN user_states[u].state :
       \/ \E c \in Callers : WritesUserKey(c, u, k)
       \/ u \in DOMAIN user_states' /\ KeyKept(user_states[u].state, user_states'[u].state, k)

\* C12: what get_session builds for a session is made of the AppState row of
\* its application, the UserState row of its (application, user) and its own
\* sessions row and of no other row, so an app key is shared by the sessions of
\* the application, a user key by those of the (application, user), and an
\* unprefixed key is seen in its session only; and a committed app or user key
\* keeps its value until an operation commits that key again.
C12_TiersSharedAndIsolated == []MergedOfStoredRows /\ [][SharedKeysStay]_vars

\* ------------------------------------------------------------------------
\* One caller at a time, on sessions of three (application, user) scopes, on
\* a database that enforces foreign keys or one that does not
Scopes == {<<"a1", "u1">>, <<"a1", "u2">>, <<"a2", "u1">>}

ScopeInitialStates ==
  { Some(update(update(Dict1(KeyK, 1), Dict1(AppJ, 1)), Dict1(UserK, 1))) }

ScopeStateDeltas ==
  { EmptyDict, update(update(Dict1(KeyK, 2), Dict1(AppK, 2)), Dict1(UserK, 2)) }

ScopesNext ==
  \/ Tick
  \/ \E scope \in Scopes, state \in ScopeInitialStates, session_id \in Sids \cup {NoneId} :
       CreateFetchAppState("c1", scope[1], scope[2], state, session_id)
  \/ CreateFetchUserState("c1")
  \/ CreateCommit("c1")
  \/ CreateRefresh("c1")
  \/ \E scope \in Scopes, session_id \in Sids :
       GetFetchSession("c1", scope[1], scope[2], session_id, NoConfig)
  \/ GetQueryEvents("c1")
  \/ GetFetchAppState("c1")
  \/ GetFetchUserState("c1")
  \/ \E scope \in Scopes : ListSessions("c1", scope[1], scope[2])
  \/ \E scope \in Scopes, session_id \in Sids :
       DeleteSession("c1", scope[1], scope[2], session_id)
  \/ \E state_delta \in ScopeStateDeltas :
       AppendFetchSession("c1", NewEvent(1, FALSE, state_delta))
  \/ AppendFetchAppState("c1")
  \/ AppendFetchUserState("c1")
  \/ AppendCommit("c1")
  \/ AppendRefresh("c1")

SpecScopes == Init /\ [][ScopesNext]_vars

\* C13: the rows the events query of get_session(app, user, sid) gives are
\* rows of the session (app, user, sid): none of a session with the same id
\* under another user or another application.
C13_OnlyOwnEvents ==
  [][\A c \in Callers :
       (call[c].pc = "get_events" /\ call'[c].pc = "get_app") =>
         \A i \in DOMAIN call'[c].storage_events :
           LET e == call'[c].storage_events[i]
           IN <<e.app_name, e.user_id, e.session_id>> = SessionKey(call[c])
    ]_vars

\* ------------------------------------------------------------------------
\* A caller that reads: get_session on a database as create_session with
\* state {"k": 1, "app:j": 1, "user:k": 1} and appends of events without state
\* delta leave it, the events being some of three appended with the timestamps
\* 2, 1 and 2
StoredEvent(id, timestamp) ==
  [id |-> id, app_name |-> "a1", user_id |-> "u1", session_id |-> "s1",
   timestamp |-> timestamp, partial |-> FALSE, actions |-> [state_delta |-> EmptyDict]]

StoredEvents == {StoredEvent(1, 2), StoredEvent(2, 1), StoredEvent(3, 2)}

ReadInit ==
  /\ app_states = [a \in {"a1"} |-> [state |-> Dict1(<<"j">>, 1)]]
  /\ user_states = [u \in {<<"a1", "u1">>} |-> [state |-> Dict1(KeyK, 1)]]
  /\ sessions = [key \in {<<"a1", "u1", "s1">>} |-> [state |-> Dict1(KeyK, 1), update_time |-> 1]]
  /\ events \in SUBSET StoredEvents
  /\ now = 1
  /\ foreign_keys \in BOOLEAN
  /\ call = [c \in Callers |-> Idle]
  /\ held = [c \in Callers |-> NoSession]
  /\ ret = [c \in Callers |-> NoResult]
  /\ ops = 0

\* the configs the readers pass: none, and every combination of an unset, a
\* zero and a positive num_recent_events and after_timestamp
ReadConfigs ==
  {NoConfig} \cup
  {GetSessionConfig(n, t) : n \in {None, Some(0), Some(1), Some(2)},
                            t \in {None, Some(0), Some(2)}}

ReadNext ==
  \/ \E session_id \in {"s1", "s2"}, config \in ReadConfigs :
       GetFetchSession("c1", "a1", "u1", session_id, config)
  \/ GetQueryEvents("c1")
  \/ GetFetchAppState("c1")
  \/ GetFetchUserState("c1")

SpecRead == ReadInit /\ [][ReadNext]_vars

\* caller c holds the Session its last finished call, a get_session, returned
GotSession(c) ==
  ret[c].op = "get_session" /\ ret[c].outcome = "ok" /\ held[c].present

\* C14: the events get_session returns are in the order of their stored
\* timestamps, non-decreasing, whatever the order in which they were appended.
C14_EventsChronological ==
  \A c \in Callers : GotSession(c) =>
    \A i, j \in DOMAIN held[c].events :
      i < j => held[c].events[i].timestamp <= held[c].events[j].timestamp

\* get_session returned the event appended second, with timestamp 1, before
\* the event appended first, with timestamp 2
C14_Witness ==
  \E c \in Callers :
    /\ GotSession(c)
    /\ Len(held[c].events) = 3
    /\ held[c].events[1].id = 2
    /\ held[c].events[1].timestamp < held[c].events[2].timestamp

\* the value of a field of the config of the call that ended, None if it was
\* not supplied
ConfigField(c, field) ==
  IF ret[c].config.present THEN ret[c].config.d[field] ELSE None

\* the stored events of the session caller c read that pass its timestamp
\* restriction, if it supplied one
Passing(c) ==
  {e \in events :
     /\ <<e.app_name, e.user_id, e.session_id>> = SessionKey(held[c])
     /\ ConfigField(c, "after_timestamp").present =>
          e.timestamp >= ConfigField(c, "after_timestamp").d}

\* the stored events get_session returned to caller c
Returned(c) == {e \in events : \E i \in DOMAIN held[c].events : held[c].events[i].id = e.id}

\* the smaller of two numbers
Min(a, b) == IF a <= b THEN a ELSE b

\* C15: get_session returns, each once, stored events of the session that are
\* at or after the timestamp restriction T if one is supplied: all of them if
\* no cap is supplied, and with a cap N the N of them (all, if they are fewer)
\* with the largest timestamps; for every T and every N supplied.
C15_RestrictionAndCap ==
  \A c \in Callers : GotSession(c) =>
    LET N == ConfigField(c, "num_recent_events")
    IN /\ Cardinality(Returned(c)) = Len(held[c].events)
       /\ Returned(c) \subseteq Passing(c)
       /\ ~N.present => Returned(c) = Passing(c)
       /\ N.present =>
            /\ Cardinality(Returned(c)) = Min(N.d, Cardinality(Passing(c)))
            /\ \A r \in Returned(c), p \in Passing(c) \ Returned(c) :
                 r.timestamp >= p.timestamp

\* the step in which a delete_session call of caller c runs
Deletes(c) == ret'[c] # ret[c] /\ ret'[c].op = "delete_session"

\* the primary key of the sessions row an events row refers to
EventKey(e) == <<e.app_name, e.user_id, e.session_id>>

\* C16: delete_session(app, user, sid) is not an error; it removes the sessions
\* row and every events row of that session (so that a session created again
\* with the id starts with no events) and leaves the AppState and UserState
\* rows, the other sessions rows and their events as they are; when there is
\* no such session it changes nothing.
C16_DeleteRemovesSessionAndEvents ==
  [][\A c \in Callers : Deletes(c) =>
       LET key == <<ret'[c].app_name, ret'[c].user_id, ret'[c].session_id>>
       IN /\ ret'[c].outcome = "ok"
          /\ key \notin DOMAIN sessions'
          /\ \A e \in events' : EventKey(e) # key
          /\ UNCHANGED <<app_states, user_states>>
          /\ DOMAIN sessions' = DOMAIN sessions \ {key}
          /\ \A k \in DOMAIN sessions' : sessions'[k] = sessions[k]
          /\ {e \in events' : EventKey(e) # key} = {e \in events : EventKey(e) # key}
          /\ key \notin DOMAIN sessions => UNCHANGED dbvars
    ]_vars

\* the Session object caller c holds carries the stored update_time of its
\* sessions row
Fresh(c) ==
  /\ held[c].present
  /\ SessionKey(held[c]) \in DOMAIN sessions
  /\ held[c].last_update_time = sessions[SessionKey(held[c])].update_time

\* this step commits a write to the session caller c holds, or deletes it
\* (while c is between calls a commit is another caller's)
OtherWriter(c) ==
  \E w \in Callers :
    \/ AppendCommits(w) /\ SessionKey(held[w]) = SessionKey(held[c])
    \/ CreateCommits(w) /\ SessionKey(call'[w]) = SessionKey(held[c])
    \/ /\ Deletes(w)
       /\ <<ret'[w].app_name, ret'[w].user_id, ret'[w].session_id>> = SessionKey(held[c])

\* a successful append_event leaves the caller's last_update_time equal to
\* the stored update_time
RefreshedAfterAppend ==
  \A c \in Callers :
    (call[c].pc = "append_refresh" /\ ret'[c] # ret[c] /\ ret'[c].outcome = "ok")
      => Fresh(c)'

\* while the caller is between calls, its Session object stays fresh unless
\* a writer commits to the session or the session is deleted
StaysFresh ==
  \A c \in Callers :
    (call[c].pc = "idle" /\ call'[c].pc = "idle" /\ held'[c] = held[c] /\ Fresh(c))
      => Fresh(c)' \/ OtherWriter(c)

\* an append_event on a fresh Session object passes the staleness check and
\* goes on to its writes
FreshIsNotStale ==
  \A c \in Callers :
    (call[c].pc = "idle" /\ Fresh(c) /\ ret'[c] # ret[c] /\ ret'[c].op = "append_event")
      => ret'[c].outcome # "stale"

\* C17: after a successful non-partial append_event the caller's
\* last_update_time equals the stored update_time of the sessions row; it stays
\* equal until another writer commits to that session, and with it equal the
\* next append_event on the same object is not rejected as stale.
C17_SuccessiveAppendsSucceed ==
  [][RefreshedAfterAppend /\ StaysFresh /\ FreshIsNotStale]_vars

\* one caller appended twice in a row to the session it created, the update_time
\* having advanced with the first append
C17_Witness ==
  \E c \in Callers :
    /\ ret[c].op = "append_event" /\ ret[c].outcome = "ok" /\ ~ret[c].event.partial
    /\ \A w \in Callers \ {c} : ret[w] = NoResult /\ call[w].pc = "idle"
    /\ Fresh(c)
    /\ held[c].last_update_time = 2
    /\ Cardinality({e \in events : EventKey(e) = SessionKey(held[c])}) = 2
    /\ DOMAIN sessions[SessionKey(held[c])].state = {KeyK, <<"j">>}

\* this step is a delete_session of the session the events row e belongs to
DeletesSessionOf(e) ==
  \E c \in Callers :
    /\ Deletes(c)
    /\ <<ret'[c].app_name, ret'[c].user_id, ret'[c].session_id>> = EventKey(e)

\* a stored events row stays as it is, unless its session is deleted
EventRowsStay == \A e \in events : e \in events' \/ DeletesSessionOf(e)

\* the commit of an append_event stores exactly one new row, the row of its
\* event in the session of the caller
CommitStoresOneRow ==
  \A c \in Callers :
    AppendCommits(c) =>
      \E e \in events' \ events :
        /\ events' \ events = {e}
        /\ e.id = call[c].event.id
        /\ EventKey(e) = SessionKey(held[c])

\* nothing but the commit of an append_event stores a row
OnlyCommitsStore ==
  events' \ events # {} => \E c \in Callers : AppendCommits(c)

\* C18: the events table is append-only: the commit of a non-partial
\* append_event stores exactly one row, no other step stores one, and a stored
\* row stays unchanged in every step that is not a delete_session of its session.
C18_EventLogAppendOnly ==
  [][EventRowsStay /\ CommitStoresOneRow /\ OnlyCommitsStore]_vars

\* two appended events of one session are stored, and a get_session has
\* returned since
C18_Witness ==
  /\ \E e1, e2 \in events : e1.id # e2.id /\ EventKey(e1) = EventKey(e2)
  /\ \E c \in Callers : ret[c].op = "get_session" /\ ret[c].outcome = "ok"

\* this step is a step of a get_session of caller c
InGetSession(c) ==
  \/ /\ call'[c] # call[c]
     /\ \/ call[c].pc \in {"get_events", "get_app", "get_user"}
        \/ call'[c].pc \in {"get_events", "get_app", "get_user"}
  \/ ret'[c] # ret[c] /\ ret'[c].op = "get_session"

\* a step of get_session changes no stored row
GetChangesNothing == \A c \in Callers : InGetSession(c) => UNCHANGED dbvars

\* this step ends a get_session of caller c whose previous call was a
\* get_session of the same session with the same config that returned a Session
GetsAgain(c) ==
  /\ GotSession(c)
  /\ call[c].pc = "get_user"
  /\ ret'[c].op = "get_session" /\ ret'[c].outcome = "ok"
  /\ <<ret'[c].app_name, ret'[c].user_id, ret'[c].session_id, ret'[c].config>> =
       <<ret[c].app_name, ret[c].user_id, ret[c].session_id, ret[c].config>>

\* get_session of an absent session returns None and raises nothing
AbsentIsNone ==
  \A c \in Callers :
    (ret'[c] # ret[c] /\ ret'[c].op = "get_session") =>
      (ret'[c].outcome = "none") =
        (<<ret'[c].app_name, ret'[c].user_id, ret'[c].session_id>> \notin DOMAIN sessions)

\* the second of two get_session calls returns the state and the
\* last_update_time the first returned
SameStateAgain ==
  \A c \in Callers : GetsAgain(c) =>
    /\ held'[c].state = held[c].state
    /\ held'[c].last_update_time = held[c].last_update_time

\* C19: get_session changes no stored row; with no write in between, a second
\* get_session of the same session returns the same merged state, the same
\* last_update_time and the same list of events as the first; for an absent
\* session it returns None without raising.
C19_GetReadOnlyRepeatable ==
  [][/\ GetChangesNothing
     /\ AbsentIsNone
     /\ SameStateAgain
     /\ \A c \in Callers : GetsAgain(c) => held'[c].events = held[c].events
    ]_vars

\* what of C19 holds: all but the equality of the two lists of events
GetRepeatableButEvents ==
  [][GetChangesNothing /\ AbsentIsNone /\ SameStateAgain]_vars

\* the two lists of events hold the same events when no cap is given
SameEventsUncapped ==
  [][\A c \in Callers :
       (GetsAgain(c) /\ ~LimitOf(ret[c].config).present) =>
         {held'[c].events[i] : i \in DOMAIN held'[c].events} =
           {held[c].events[i] : i \in DOMAIN held[c].events}
    ]_vars

\* this step is a list_sessions of caller c
Lists(c) == ret'[c] # ret[c] /\ ret'[c].op = "list_sessions"

\* the primary keys of the stored sessions of a user of an application
SessionsOf(app_name, user_id) ==
  {key \in DOMAIN sessions : key[1] = app_name /\ key[2] = user_id}

\* C20: list_sessions(app, user) returns one Session per stored session of
\* exactly that application and user, with the id and the stored update_time,
\* state {} and no events, and changes no stored row.
C20_ListSessionsDescriptors ==
  [][\A c \in Callers : Lists(c) =>
       LET r == ret'[c]
           listed == r.sessions
       IN /\ r.outcome = "ok"
          /\ Len(listed) = Cardinality(SessionsOf(r.app_name, r.user_id))
          /\ {<<listed[i].app_name, listed[i].user_id, listed[i].id>> : i \in DOMAIN listed}
               = SessionsOf(r.app_name, r.user_id)
          /\ \A i \in DOMAIN listed :
               /\ listed[i].state = EmptyDict
               /\ listed[i].events = <<>>
               /\ listed[i].last_update_time =
                    sessions[<<r.app_name, r.user_id, listed[i].id>>].update_time
          /\ UNCHANGED dbvars
    ]_vars

\* a list_sessions returned two sessions of a user while another user has a
\* session, all of them with non-empty state in the three tiers
C20_Witness ==
  \E c \in Callers :
    /\ ret[c].op = "list_sessions" /\ call[c].pc = "idle"
    /\ Len(ret[c].sessions) = 2
    /\ Cardinality(SessionsOf(ret[c].app_name, ret[c].user_id)) = 2
    /\ DOMAIN sessions # SessionsOf(ret[c].app_name, ret[c].user_id)
    /\ \A key \in DOMAIN sessions : sessions[key].state # EmptyDict
    /\ app_states[ret[c].app_name].state # EmptyDict
    /\ user_states[<<ret[c].app_name, ret[c].user_id>>].state # EmptyDict

\* ------------------------------------------------------------------------
\* The service with two callers on a database that does not enforce foreign
\* keys (SQLite as create_engine opens it)
UnenforcingInit == Init /\ ~foreign_keys

SpecUnenforced == UnenforcingInit /\ [][Next]_vars

\* every events row has its sessions row
EventsHaveSessions == \A e \in events : EventKey(e) \in DOMAIN sessions

\* this step ends a non-partial append_event of caller c
AppendEnds(c) ==
  ret'[c] # ret[c] /\ ret'[c].op = "append_event" /\ ~ret'[c].event.partial

\* the commit of an append_event finds the sessions row of its session
CommitFindsSession ==
  \A c \in Callers : AppendCommits(c) => SessionKey(held[c]) \in DOMAIN sessions

\* an append_event that ends with its session deleted has failed
AppendOnDeletedFails ==
  \A c \in Callers :
    (AppendEnds(c) /\ SessionKey(held[c]) \notin DOMAIN sessions)
      => ret'[c].outcome # "ok"

\* an append_event that fails has committed nothing
FailedAppendCommitsNothing ==
  \A c \in Callers :
    (AppendEnds(c) /\ ret'[c].outcome # "ok")
      => call[c].pc # "append_refresh" /\ UNCHANGED dbvars

\* C21: in every state each events row has its sessions row; an append_event on
\* a deleted session, or one that overlaps with the delete_session of its
\* session, fails, and a failed append_event has committed no events row and
\* no write to app_states or user_states.
C21_EventsReferToSessions ==
  /\ []EventsHaveSessions
  /\ [][CommitFindsSession /\ AppendOnDeletedFails /\ FailedAppendCommitsNothing]_vars

\* caller c is at the commit of a create_session whose session_id is the id
\* of a stored session of the same application and user
CreatesExisting(c) ==
  /\ call[c].pc = "create_commit"
  /\ call'[c] # call[c]
  /\ <<call[c].app_name, call[c].user_id, call[c].session_id>> \in DOMAIN sessions

\* this step is a step of a create_session of caller c
InCreateSession(c) ==
  /\ call'[c] # call[c]
  /\ \/ call[c].pc \in {"create_user", "create_commit", "create_refresh"}
     \/ call'[c].pc = "create_user"

\* C22: create_session with the id of a stored session of the same application
\* and user fails, and no row of sessions, events, app_states or user_states
\* changes: the writes of a create_session are committed together or not at all.
C22_DuplicateCreateFails ==
  [][\A c \in Callers :
       /\ CreatesExisting(c) =>
            /\ ret'[c] # ret[c]
            /\ ret'[c].op = "create_session" /\ ret'[c].outcome = "error"
            /\ call'[c].pc = "idle"
            /\ held'[c] = held[c]
            /\ UNCHANGED dbvars
       /\ (InCreateSession(c) /\ ~CreateCommits(c)) => UNCHANGED dbvars
    ]_vars

\* a caller created a session, appended to it, and was then refused a
\* create_session with the same id, the other caller not having acted
C22_Witness ==
  \E c \in Callers :
    /\ ret[c].op = "create_session" /\ ret[c].outcome = "error"
    /\ call[c].pc = "idle"
    /\ \A w \in Callers \ {c} : ret[w] = NoResult /\ call[w].pc = "idle"
    /\ held[c].present
    /\ SessionKey(held[c]) \in DOMAIN sessions
    /\ \E e \in events : EventKey(e) = SessionKey(held[c])
    /\ app_states[held[c].app_name].state # EmptyDict

\* the app_states row and the user_states row of an application and user exist
TierRowsExist(app_name, user_id) ==
  app_name \in DOMAIN app_states /\ <<app_name, user_id>> \in DOMAIN user_states

\* every stored session, and every Session a caller holds, has its two tier rows
SessionsHaveTierRows ==
  /\ \A key \in DOMAIN sessions : TierRowsExist(key[1], key[2])
  /\ \A c \in Callers : held[c].present => TierRowsExist(held[c].app_name, held[c].user_id)

\* the app_states row an append_event fetched was found
AppendFoundAppState ==
  \A c \in Callers : call[c].pc = "append_user" => call[c].storage_app_state.found

\* no step deletes a row of app_states or user_states
TierRowsStay ==
  /\ DOMAIN app_states \subseteq DOMAIN app_states'
  /\ DOMAIN user_states \subseteq DOMAIN user_states'

\* C23: in every state a stored session has its app_states row and its
\* user_states row; no step, delete_session included, deletes such a row; so an
\* append_event finds both rows whatever the delta of its event.
C23_TierRowsExist ==
  /\ [](SessionsHaveTierRows /\ AppendFoundAppState)
  /\ [][TierRowsStay]_vars

\* every session is deleted, the tier rows are stored, and an append_event with
\* an app-scoped delta has succeeded
C23_Witness ==
  /\ sessions = <<>>
  /\ app_states # <<>> /\ user_states # <<>>
  /\ \E c, w \in Callers :
       /\ ret[c].op = "append_event" /\ ret[c].outcome = "ok"
       /\ EventDeltas(ret[c].event).app_state_delta # EmptyDict
       /\ ret[w].op = "delete_session"
====
